---------------------------- MODULE Spec2Model ----------------------------
(***************************************************************************)
(* A model of the userpypi views: the owner-scoped listing and detail      *)
(* views of packages and releases (views/packages.py, views/releases.py)   *)
(* and the form-backed editors of a package, its versions, its files and   *)
(* file uploads.                                                           *)
(*                                                                         *)
(* Two specifications share the variables:                                 *)
(*   SpecViews  the read-only class-based views, over every setting of    *)
(*              the configuration and of the packages' private flags;      *)
(*   Spec       the editors, whose multi-row saves are taken one store     *)
(*              write at a time, as the code issues them.                  *)
(***************************************************************************)
EXTENDS Naturals, Sequences, FiniteSets, TLC

VARIABLES
    PROXY_MISSING,   \* userpypi.settings.PROXY_MISSING
    PROXY_BASE_URL,  \* userpypi.settings.PROXY_BASE_URL, a sequence of characters
    private,         \* Package.private, per stored package
    maintainers,     \* the stored maintainer rows, per package
    hidden,          \* Release.hidden, per stored release
    dists,           \* the stored Distribution rows, in creation order
    package_info,    \* Release.package_info, per stored release: key -> values
    pending,         \* the save in progress: the store writes a handler has yet to issue
    posts,           \* the number of write requests that saved something so far
    resp             \* the response of the request just handled, until it is sent

vars == <<PROXY_MISSING, PROXY_BASE_URL, private, maintainers, hidden, dists,
          package_info, pending, posts, resp>>

store == <<private, maintainers, hidden, dists, package_info>>

-----------------------------------------------------------------------------
(* The fixture: users, packages and releases of the store.                 *)

Users == {"alice", "bob", "acme"}

\* request.user of a request without a login (AnonymousUser): no User row.
Anonymous == "anon"

\* self.kwargs.get('owner', None) when the route carries no owner.
NoOwner == "None"

\* A username no User row has.
Ghost == "ghost"

\* owner.profile.organization
Organization(u) == u = "acme"

PackageIds == {"p1", "p2", "p3", "p4"}

Package ==
    "p1" :> [owner |-> "alice", name |-> "foo"] @@
    "p2" :> [owner |-> "alice", name |-> "bar"] @@
    "p3" :> [owner |-> "bob",   name |-> "foo"] @@
    "p4" :> [owner |-> "acme",  name |-> "bar"]

ReleaseIds == {"r1", "r2", "r3", "r4", "r5", "r6"}

Release ==
    "r1" :> [package |-> "p1", version |-> "1.0", private |-> FALSE] @@
    "r2" :> [package |-> "p1", version |-> "2.0", private |-> TRUE]  @@
    "r3" :> [package |-> "p2", version |-> "1.0", private |-> FALSE] @@
    "r4" :> [package |-> "p3", version |-> "1.0", private |-> FALSE] @@
    "r5" :> [package |-> "p4", version |-> "1.0", private |-> TRUE]  @@
    "r6" :> [package |-> "p4", version |-> "2.0", private |-> FALSE]

Names == {"foo", "bar", "nope"}

Versions == {"1.0", "2.0"}

\* Release.metadata_version
MetadataVersion ==
    "r1" :> "1.0" @@ "r2" :> "2.0" @@ "r3" :> "2.0" @@
    "r4" :> "1.1" @@ "r5" :> "2.0" @@ "r6" :> "2.0"

\* Release.package_info as first stored: a multi-valued dictionary, each key
\* it holds with the list of its values.
InitPackageInfo ==
    [x \in ReleaseIds |->
        IF x = "r1"
        THEN "summary" :> <<"x", "y">> @@ "classifier" :> <<"A", "B">> @@
             "license" :> <<"MIT">>
        ELSE "license" :> <<"GPL">>]

-----------------------------------------------------------------------------
(* Responses.                                                              *)

\* The fields of a response record; a handler fills in what it produces.
Blank ==
    [view |-> "idle", user |-> Anonymous, owner |-> NoOwner, package |-> "nope",
     version |-> "1.0", doap |-> FALSE, simple |-> FALSE, method |-> "GET",
     kind |-> "none", exc |-> "none", objs |-> {}, url |-> <<>>,
     mimetype |-> "text/html", template |-> "none", errors |-> FALSE,
     formValid |-> FALSE, fsValid |-> FALSE,
     seenPrivate |-> FALSE, seenMaint |-> {}, seenHidden |-> {},
     initial |-> <<>>, cleaned |-> <<>>]

\* The outcome at the request boundary of an exception a view lets escape:
\* Http404 is a 404 response, anything else a server error.
Raised(r, e) ==
    [r EXCEPT !.kind = IF e = "Http404" THEN "notfound" ELSE "error", !.exc = e]


Requesters == Users \cup {Anonymous}

PathOwners == Users \cup {Ghost, NoOwner}

-----------------------------------------------------------------------------
(* views/packages.py: OwnerObjectMixin, PackageListView, PackageDetailView *)

\* Package.objects.filter(owner=u)
OwnedBy(u) == {p \in PackageIds : Package[p].owner = u}

\* OwnerObjectMixin.get_owner: the cached owner when one is set, else the User
\* of the route's username; User.objects.get raises DoesNotExist when no User
\* has it. Without an owner in the route the owner is None.
GetOwner(selfOwner, kwOwner) ==
    IF selfOwner \in Users
    THEN [exc |-> "none", owner |-> selfOwner]
    ELSE IF kwOwner # NoOwner
         THEN IF kwOwner \in Users
              THEN [exc |-> "none", owner |-> kwOwner]
              ELSE [exc |-> "DoesNotExist", owner |-> NoOwner]
         ELSE [exc |-> "none", owner |-> NoOwner]

\* OwnerObjectMixin.get_queryset. With owner None the comparison
\* request.user != None holds and self.owner.profile raises AttributeError.
GetQueryset(user, kwOwner) ==
    LET o == GetOwner(NoOwner, kwOwner) IN
    IF o.exc # "none"
    THEN [exc |-> o.exc, owner |-> NoOwner, rows |-> {}]
    ELSE IF user # o.owner
         THEN IF o.owner = NoOwner
              THEN [exc |-> "AttributeError", owner |-> NoOwner, rows |-> {}]
              ELSE IF Organization(o.owner)
                   THEN [exc |-> "none", owner |-> o.owner,
                         rows |-> OwnedBy(o.owner)]
                   ELSE [exc |-> "none", owner |-> o.owner,
                         rows |-> {p \in OwnedBy(o.owner) : ~private[p]}]
         ELSE [exc |-> "none", owner |-> o.owner, rows |-> OwnedBy(o.owner)]

\* OwnerObjectMixin.get_context_data: context['owner'] = self.get_owner()
GetContextData(selfOwner, kwOwner) == GetOwner(selfOwner, kwOwner).exc

\* PackageListView.get_template_names
PackageListTemplate(simple) ==
    IF simple THEN "userpypi/package_list_simple.html"
    ELSE "userpypi/package_list.html"

\* PackageListView: object_list = get_queryset(), then the context, then the
\* template response.
PackageList(user, kwOwner, simple) ==
    LET r == [Blank EXCEPT !.view = "package_list", !.user = user,
                           !.owner = kwOwner, !.simple = simple]
        q == GetQueryset(user, kwOwner)
    IN  IF q.exc # "none" THEN Raised(r, q.exc)
        ELSE IF GetContextData(q.owner, kwOwner) # "none"
             THEN Raised(r, GetContextData(q.owner, kwOwner))
             ELSE [r EXCEPT !.kind = "render", !.objs = q.rows,
                            !.template = PackageListTemplate(simple)]

\* str.rstrip('/')
RECURSIVE RStrip(_)
RStrip(s) ==
    IF s # <<>> /\ s[Len(s)] = "/" THEN RStrip(SubSeq(s, 1, Len(s) - 1)) ELSE s

\* '%s/%s/' % (PROXY_BASE_URL.rstrip('/'), package)
ProxyUrl(package) == RStrip(PROXY_BASE_URL) \o <<"/", package, "/">>

\* The miss branch without the proxy fallback: every miss raises.
PackageMissNoProxy(package, bound) ==
    IF bound
    THEN [exc |-> "Http404", objs |-> {}, redirect |-> <<>>]
    ELSE [exc |-> "UnboundLocalError", objs |-> {}, redirect |-> <<>>]

\* The except ObjectDoesNotExist branch of PackageDetailView.get_object;
\* bound says whether the local queryset was assigned before the exception.
PackageMiss(package, bound) ==
    IF PROXY_MISSING
    THEN [exc |-> "none", objs |-> {}, redirect |-> ProxyUrl(package)]
    ELSE IF bound
         THEN [exc |-> "Http404", objs |-> {}, redirect |-> <<>>]
         ELSE [exc |-> "UnboundLocalError", objs |-> {}, redirect |-> <<>>]

\* PackageDetailView.get_object. User.DoesNotExist from get_owner is an
\* ObjectDoesNotExist, so the except branch catches it too, before queryset
\* is assigned.
PackageGetObject(user, kwOwner, package) ==
    LET q == GetQueryset(user, kwOwner)
        match == {p \in q.rows : Package[p].name = package}
    IN  IF q.exc = "DoesNotExist" THEN PackageMiss(package, FALSE)
        ELSE IF q.exc # "none"
        THEN [exc |-> q.exc, objs |-> {}, redirect |-> <<>>]
        ELSE IF match = {} THEN PackageMiss(package, TRUE)
        ELSE IF Cardinality(match) > 1
        THEN [exc |-> "MultipleObjectsReturned", objs |-> {}, redirect |-> <<>>]
        ELSE [exc |-> "none", objs |-> match, redirect |-> <<>>]

\* PackageDetailView.get_template_names
PackageDetailTemplate(simple, doap) ==
    IF simple THEN "userpypi/package_detail_simple.html"
    ELSE IF doap THEN "userpypi/package_doap.xml"
    ELSE "userpypi/package_detail.html"

\* PackageDetailView.render_to_response: the redirect first; else self.doap is
\* read from the route and decides the mimetype, and the template response
\* then asks get_template_names.
PackageRender(r, g, kwDoap, simple) ==
    IF g.redirect # <<>>
    THEN [r EXCEPT !.kind = "redirect", !.url = g.redirect]
    ELSE LET doap == kwDoap IN
         [r EXCEPT !.kind = "render", !.objs = g.objs,
                   !.mimetype = IF doap THEN "text/xml" ELSE "text/html",
                   !.template = PackageDetailTemplate(simple, doap)]

\* PackageDetailView: get_object, then the context (get_owner again: the
\* owner is cached only if the first lookup found one), then the response.
PackageDetail(user, kwOwner, package, kwDoap, simple) ==
    LET r == [Blank EXCEPT !.view = "package_detail", !.user = user,
                           !.owner = kwOwner, !.package = package,
                           !.doap = kwDoap, !.simple = simple]
        g == PackageGetObject(user, kwOwner, package)
        cached == GetOwner(NoOwner, kwOwner)
        ctx == GetContextData(IF cached.exc = "none" THEN cached.owner ELSE NoOwner,
                              kwOwner)
    IN  IF g.exc # "none" THEN Raised(r, g.exc)
        ELSE IF ctx # "none" THEN Raised(r, ctx)
        ELSE PackageRender(r, g, kwDoap, simple)

-----------------------------------------------------------------------------
(* views/releases.py: ReleaseOwnerObjectMixin, ReleaseListView,            *)
(* ReleaseDetailView                                                       *)

\* Release.objects.filter(package__owner=u); no package is owned by the
\* anonymous user.
ReleasesOwnedBy(u) == {x \in ReleaseIds : Package[Release[x].package].owner = u}

\* ReleaseOwnerObjectMixin.get_owner: Http404 for an unknown username and for
\* a route without an owner.
ReleaseGetOwner(selfOwner, kwOwner) ==
    IF selfOwner \in Users
    THEN [exc |-> "none", owner |-> selfOwner]
    ELSE IF kwOwner # NoOwner
         THEN IF kwOwner \in Users
              THEN [exc |-> "none", owner |-> kwOwner]
              ELSE [exc |-> "Http404", owner |-> NoOwner]
         ELSE [exc |-> "Http404", owner |-> NoOwner]

\* ReleaseOwnerObjectMixin.get_queryset: params is assigned only inside the
\* if, so the owner's own request reaches filter(**params) with params
\* unbound; the non-organization branch filters on request.user.
ReleaseGetQueryset(user, kwOwner) ==
    LET o == ReleaseGetOwner(NoOwner, kwOwner) IN
    IF o.exc # "none"
    THEN [exc |-> o.exc, owner |-> NoOwner, rows |-> {}]
    ELSE IF user # o.owner
         THEN IF Organization(o.owner)
              THEN [exc |-> "none", owner |-> o.owner,
                    rows |-> ReleasesOwnedBy(o.owner)]
              ELSE [exc |-> "none", owner |-> o.owner,
                    rows |-> {x \in ReleasesOwnedBy(user) : ~Release[x].private}]
         ELSE [exc |-> "UnboundLocalError", owner |-> o.owner, rows |-> {}]

\* ReleaseListView.get_template_names
ReleaseListTemplate(simple) ==
    IF simple THEN "userpypi/release_list_simple.html"
    ELSE "userpypi/release_list.html"

\* ReleaseListView
ReleaseList(user, kwOwner, simple) ==
    LET r == [Blank EXCEPT !.view = "release_list", !.user = user,
                           !.owner = kwOwner, !.simple = simple]
        q == ReleaseGetQueryset(user, kwOwner)
    IN  IF q.exc # "none" THEN Raised(r, q.exc)
        ELSE [r EXCEPT !.kind = "render", !.objs = q.rows,
                       !.template = ReleaseListTemplate(simple)]

\* ReleaseDetailView.get_object: the queryset is narrowed by the package name
\* alone. In the except branch the message is built with _, a name the module
\* never imports, so NameError is raised in place of Http404.
ReleaseGetObject(user, kwOwner, package, version) ==
    LET q == ReleaseGetQueryset(user, kwOwner)
        match == {x \in q.rows : Package[Release[x].package].name = package}
    IN  IF q.exc # "none" THEN [exc |-> q.exc, objs |-> {}]
        ELSE IF match = {} THEN [exc |-> "NameError", objs |-> {}]
        ELSE IF Cardinality(match) > 1
        THEN [exc |-> "MultipleObjectsReturned", objs |-> {}]
        ELSE [exc |-> "none", objs |-> match]

\* ReleaseDetailView.get_template_names: sets self.doap from the route.
ReleaseDetailTemplate(kwDoap) ==
    IF kwDoap THEN "userpypi/release_doap.xml"
    ELSE "userpypi/release_detail.html"

\* ReleaseDetailView.doap, the class attribute a fresh view instance starts with.
ReleaseDoapDefault == FALSE

\* ReleaseDetailView.render_to_response: the mimetype is decided from
\* self.doap as it stands on entry; get_template_names runs inside the
\* template response, after it.
ReleaseRender(r, g, kwDoap) ==
    LET doap == ReleaseDoapDefault IN
    [r EXCEPT !.kind = "render", !.objs = g.objs,
              !.mimetype = IF doap THEN "text/xml" ELSE "text/html",
              !.template = ReleaseDetailTemplate(kwDoap)]

\* ReleaseDetailView
ReleaseDetail(user, kwOwner, package, version, kwDoap) ==
    LET r == [Blank EXCEPT !.view = "release_detail", !.user = user,
                           !.owner = kwOwner, !.package = package,
                           !.version = version, !.doap = kwDoap]
        g == ReleaseGetObject(user, kwOwner, package, version)
    IN  IF g.exc # "none" THEN Raised(r, g.exc)
        ELSE ReleaseRender(r, g, kwDoap)

-----------------------------------------------------------------------------
(* The read-only views as actions.                                         *)

Idle == resp.view = "idle"

PackageListView ==
    /\ Idle
    /\ \E user \in Requesters, kwOwner \in PathOwners, simple \in BOOLEAN :
           resp' = PackageList(user, kwOwner, simple)
    /\ UNCHANGED <<PROXY_MISSING, PROXY_BASE_URL, store, pending, posts>>

PackageDetailView ==
    /\ Idle
    /\ \E user \in Requesters, kwOwner \in PathOwners, package \in Names,
          kwDoap \in BOOLEAN, simple \in BOOLEAN :
           resp' = PackageDetail(user, kwOwner, package, kwDoap, simple)
    /\ UNCHANGED <<PROXY_MISSING, PROXY_BASE_URL, store, pending, posts>>

ReleaseListView ==
    /\ Idle
    /\ \E user \in Requesters, kwOwner \in PathOwners, simple \in BOOLEAN :
           resp' = ReleaseList(user, kwOwner, simple)
    /\ UNCHANGED <<PROXY_MISSING, PROXY_BASE_URL, store, pending, posts>>

ReleaseDetailView ==
    /\ Idle
    /\ \E user \in Requesters, kwOwner \in PathOwners, package \in Names,
          version \in Versions, kwDoap \in BOOLEAN :
           resp' = ReleaseDetail(user, kwOwner, package, version, kwDoap)
    /\ UNCHANGED <<PROXY_MISSING, PROXY_BASE_URL, store, pending, posts>>

\* The response leaves the handler and the next request is taken.
SendResponse ==
    /\ ~Idle
    /\ resp' = Blank
    /\ UNCHANGED <<PROXY_MISSING, PROXY_BASE_URL, store, pending, posts>>

NoPending == [kind |-> "none"]

InitPrivate == "p1" :> FALSE @@ "p2" :> TRUE @@ "p3" :> FALSE @@ "p4" :> TRUE

BaseUrls == {<<"u">>, <<"u", "/">>, <<"u", "/", "/">>}

InitViews ==
    /\ PROXY_MISSING \in BOOLEAN
    /\ PROXY_BASE_URL \in BaseUrls
    /\ private \in [PackageIds -> BOOLEAN]
    /\ maintainers = [p \in PackageIds |-> {}]
    /\ hidden = [x \in ReleaseIds |-> FALSE]
    /\ dists = <<>>
    /\ package_info = InitPackageInfo
    /\ pending = NoPending
    /\ posts = 0
    /\ resp = Blank

NextViews ==
    \/ PackageListView
    \/ PackageDetailView
    \/ ReleaseListView
    \/ ReleaseDetailView
    \/ SendResponse

SpecViews == InitViews /\ [][NextViews]_vars

-----------------------------------------------------------------------------
(* The editors: packages.manage, packages.manage_versions,                 *)
(* releases.manage_files, releases.upload_file.                            *)

MaxSaves == 2

MaxDists == 3

Comments == {"a", "b"}

EditRequesters == {"alice", "bob"}

EditOwners == {"alice", "bob"}

EditNames == {"foo", "bar"}

Methods == {"GET", "POST"}

\* The order in which a formset walks its rows.
UserOrder == <<"acme", "alice", "bob">>

ReleaseOrder == <<"r1", "r2", "r3", "r4", "r5", "r6">>

\* Package.objects.filter(owner__username=o, name=n)
PackagesNamed(o, n) ==
    {p \in PackageIds : Package[p].owner = o /\ Package[p].name = n}

\* The capability gate user_maintains_package: the requester is logged in and
\* owns or maintains the package the route names.
MaintainsPackage(user, owner, package) ==
    /\ user \in Users
    /\ \E p \in PackagesNamed(owner, package) :
           user = Package[p].owner \/ user \in maintainers[p]

\* Package.get_release(version): the releases of p with that version (none:
\* the method returns None).
GetRelease(p, version) ==
    {x \in ReleaseIds : Release[x].package = p /\ Release[x].version = version}

\* The request fields every editor's response carries.
EditResp(view, user, owner, package, version, method) ==
    [Blank EXCEPT !.view = view, !.user = user, !.owner = owner,
                  !.package = package, !.version = version, !.method = method]

Forbidden(r) == [resp |-> [r EXCEPT !.kind = "forbidden"], ops |-> <<>>]

NotFound(r) == [resp |-> Raised(r, "Http404"), ops |-> <<>>]

\* maintainer_formset.save(): one row saved or deleted per changed maintainer.
MaintainerRows(p, target) ==
    LET changed == (target \ maintainers[p]) \cup (maintainers[p] \ target)
        rows[i \in 0..Len(UserOrder)] ==
            IF i = 0 THEN <<>>
            ELSE IF UserOrder[i] \in changed
                 THEN Append(rows[i - 1],
                             [op |-> IF UserOrder[i] \in target
                                     THEN "add_maintainer" ELSE "del_maintainer",
                              id |-> p, val |-> UserOrder[i]])
                 ELSE rows[i - 1]
    IN  rows[Len(UserOrder)]

\* The writes of a package form saved with commit=True before the maintainer
\* formset is validated.
ManageWritesCommitFirst(p, form) ==
    <<[op |-> "package", id |-> p, val |-> form.private]>>
    \o (IF form.fsValid THEN MaintainerRows(p, form.maint) ELSE <<>>)

\* manage, POST with a valid package form: obj = form.save(commit=False)
\* changes the instance in memory only; obj.save() and
\* maintainer_formset.save() run when the formset is valid too.
ManageWrites(p, form) ==
    IF form.fsValid
    THEN <<[op |-> "package", id |-> p, val |-> form.private]>>
         \o MaintainerRows(p, form.maint)
    ELSE <<>>

\* packages.manage
Manage(user, owner, package, method, form) ==
    LET r0 == EditResp("package_manage", user, owner, package, "1.0", method)
        r == [r0 EXCEPT !.formValid = method = "POST" /\ form.formValid,
                        !.fsValid = method = "POST" /\ form.fsValid,
                        !.template = "userpypi/package_manage.html"]
        ps == PackagesNamed(owner, package)
        p == CHOOSE q \in ps : TRUE
    IN  IF ~MaintainsPackage(user, owner, package) THEN Forbidden(r)
        ELSE IF ps = {} THEN NotFound(r)
        ELSE IF method = "GET"
        THEN [resp |-> [r EXCEPT !.kind = "render", !.objs = {p},
                                 !.seenPrivate = private[p],
                                 !.seenMaint = maintainers[p]],
              ops |-> <<>>]
        ELSE IF ~form.formValid
        \* maintainer_formset is not assigned on this path
        THEN [resp |-> Raised(r, "UnboundLocalError"), ops |-> <<>>]
        ELSE IF ~form.fsValid
        THEN [resp |-> [r EXCEPT !.kind = "render", !.objs = {p},
                                 !.errors = TRUE,
                                 !.seenPrivate = form.private,
                                 !.seenMaint = form.maint],
              ops |-> ManageWrites(p, form)]
        ELSE [resp |-> [r EXCEPT !.kind = "redirect",
                                 !.url = <<"package-manage", owner, package>>],
              ops |-> ManageWrites(p, form)]

\* formset.save() of the version formset: one save per release of the package
\* whose hidden flag the submission changes.
VersionRows(p, hide) ==
    LET rows[i \in 0..Len(ReleaseOrder)] ==
            IF i = 0 THEN <<>>
            ELSE IF /\ Release[ReleaseOrder[i]].package = p
                    /\ hidden[ReleaseOrder[i]] # (ReleaseOrder[i] \in hide)
                 THEN Append(rows[i - 1],
                             [op |-> "hidden", id |-> ReleaseOrder[i],
                              val |-> ReleaseOrder[i] \in hide])
                 ELSE rows[i - 1]
    IN  rows[Len(ReleaseOrder)]

\* packages.manage_versions: the package is looked up with owner=request.user.
\* After an invalid POST the formset is built afresh from the instance, so
\* the page shows the stored rows without the submission's errors.
ManageVersions(user, owner, package, method, fs) ==
    LET r0 == EditResp("manage_versions", user, owner, package, "1.0", method)
        r == [r0 EXCEPT !.formValid = method = "POST",
                        !.fsValid = method = "POST" /\ fs.valid,
                        !.template = "userpypi/package_manage_versions.html"]
        ps == PackagesNamed(user, package)
        p == CHOOSE q \in ps : TRUE
        shown == [r EXCEPT !.kind = "render", !.objs = {p},
                           !.seenHidden = {x \in ReleaseIds :
                                Release[x].package = p /\ hidden[x]}]
    IN  IF ~MaintainsPackage(user, owner, package) THEN Forbidden(r)
        ELSE IF ps = {} THEN NotFound(r)
        ELSE IF method = "POST" /\ fs.valid
        THEN [resp |-> [r EXCEPT !.kind = "redirect",
                                 !.url = <<"package", user, package>>],
              ops |-> VersionRows(p, fs.hide)]
        ELSE [resp |-> shown, ops |-> <<>>]

\* formset.save() of the file formset: one save per Distribution of the
\* release whose comment the submission changes.
FileRows(x, comments) ==
    LET rows[i \in 0..Len(dists)] ==
            IF i = 0 THEN <<>>
            ELSE IF dists[i].release = x /\ dists[i].comment # comments[i]
                 THEN Append(rows[i - 1],
                             [op |-> "comment", id |-> i, val |-> comments[i]])
                 ELSE rows[i - 1]
    IN  rows[Len(dists)]

\* releases.manage_files: a valid POST saves and renders a fresh formset; an
\* invalid one renders the bound formset with its errors.
ManageFiles(user, owner, package, version, method, fs) ==
    LET r0 == EditResp("manage_files", user, owner, package, version, method)
        r == [r0 EXCEPT !.formValid = method = "POST",
                        !.fsValid = method = "POST" /\ fs.valid,
                        !.template = "userpypi/release_manage_files.html"]
        ps == PackagesNamed(user, package)
        p == CHOOSE q \in ps : TRUE
        xs == GetRelease(p, version)
        x == CHOOSE y \in xs : TRUE
    IN  IF ~MaintainsPackage(user, owner, package) THEN Forbidden(r)
        ELSE IF ps = {} THEN NotFound(r)
        ELSE IF xs = {} THEN NotFound(r)
        ELSE IF method = "POST" /\ fs.valid
        THEN [resp |-> [r EXCEPT !.kind = "render", !.objs = {x}],
              ops |-> FileRows(x, fs.comments)]
        ELSE [resp |-> [r EXCEPT !.kind = "render", !.objs = {x},
                                 !.errors = method = "POST"],
              ops |-> <<>>]

\* releases.upload_file: the package is looked up with owner=request.user; a
\* valid form is saved as one Distribution of the release found, uploaded by
\* request.user.
UploadFile(user, owner, package, version, method, form) ==
    LET r0 == EditResp("upload_file", user, owner, package, version, method)
        r == [r0 EXCEPT !.formValid = method = "POST" /\ form.valid,
                        !.fsValid = method = "POST",
                        !.template = "userpypi/release_upload_file.html"]
        ps == PackagesNamed(user, package)
        p == CHOOSE q \in ps : TRUE
        xs == GetRelease(p, version)
        x == CHOOSE y \in xs : TRUE
    IN  IF ~MaintainsPackage(user, owner, package) THEN Forbidden(r)
        ELSE IF ps = {} THEN NotFound(r)
        ELSE IF xs = {} THEN NotFound(r)
        ELSE IF method = "POST" /\ form.valid
        THEN [resp |-> [r EXCEPT !.kind = "redirect", !.objs = {x},
                                 !.url = <<"release-manage-files", package, version>>],
              ops |-> <<[op |-> "dist", id |-> x,
                         val |-> [release |-> x, uploader |-> user,
                                  comment |-> form.comment]]>>]
        ELSE [resp |-> [r EXCEPT !.kind = "render", !.objs = {x},
                                 !.errors = method = "POST"],
              ops |-> <<>>]

-----------------------------------------------------------------------------
(* releases.manage_metadata and utils.get_class.                           *)

\* userpypi.settings.METADATA_FORMS: metadata version -> dotted path of the
\* form class, a sequence of characters.
METADATA_FORMS ==
    "1.0" :> <<"userpypi", ".", "forms", ".", "Metadata10Form">> @@
    "1.1" :> <<"userpypi", ".", "forms", ".", "Metadata11Form">>

\* The modules import_module finds, and the names each defines.
Modules == {<<"userpypi", ".", "forms">>}

ModuleNames(mod) == {<<"Metadata10Form">>, <<"Metadata11Form">>}

\* utils.get_class: the path is split at its last dot; a path without a dot,
\* a module that cannot be imported and a name the module lacks each raise
\* ImproperlyConfigured.
GetClass(path) ==
    LET dots == {i \in 1..Len(path) : path[i] = "."}
        dot == CHOOSE i \in dots : \A j \in dots : j <= i
        mod == SubSeq(path, 1, dot - 1)
        classname == SubSeq(path, dot + 1, Len(path))
    IN  IF dots = {} THEN [exc |-> "ImproperlyConfigured", cls |-> <<>>]
        ELSE IF mod \notin Modules
        THEN [exc |-> "ImproperlyConfigured", cls |-> <<>>]
        ELSE IF classname \notin ModuleNames(mod)
        THEN [exc |-> "ImproperlyConfigured", cls |-> <<>>]
        ELSE [exc |-> "none", cls |-> classname]

\* multivalue = ('classifier',)
Multivalue == {"classifier"}

\* '\n'.join(values)
RECURSIVE Join(_)
Join(values) ==
    IF Len(values) <= 1 THEN values
    ELSE <<Head(values), "\n">> \o Join(Tail(values))

\* The form's initial values: a multivalue key keeps its list, any other key
\* has its values joined by newlines into one string.
Initial(info) ==
    [k \in DOMAIN info |->
        IF k \in Multivalue THEN [type |-> "list", val |-> info[k]]
        ELSE [type |-> "str", val |-> Join(info[k])]]

\* The fields of the metadata forms.
FormFields == {"summary", "classifier"}

\* The order in which cleaned_data.iteritems() yields the fields.
FieldOrder == <<"classifier", "summary">>

\* A cleaned value: a string, an iterable of strings, or neither (None).
CleanedValues ==
    {[type |-> "str", val |-> "hello"],
     [type |-> "list", val |-> <<"A", "C">>],
     [type |-> "list", val |-> <<>>],
     [type |-> "other", val |-> <<>>]}

\* MultiValueDict.appendlist in place of __setitem__: the value joins the
\* key's list.
SetItemAppend(info, key, value) ==
    [k \in DOMAIN info \cup {key} |->
        IF k = key
        THEN Append(IF key \in DOMAIN info THEN info[key] ELSE <<>>, value)
        ELSE info[k]]

\* release.package_info[key] = value: the key's list becomes [value].
SetItem(info, key, value) ==
    [k \in DOMAIN info \cup {key} |-> IF k = key THEN <<value>> ELSE info[k]]

\* release.package_info.setlist(key, list(value))
SetList(info, key, values) ==
    [k \in DOMAIN info \cup {key} |-> IF k = key THEN values ELSE info[k]]

\* The loop over form.cleaned_data: a string is set as the key's item, any
\* other iterable as the key's list, anything else is passed over.
ApplyCleaned(info, cleaned) ==
    LET step[i \in 0..Len(FieldOrder)] ==
            IF i = 0 THEN info
            ELSE LET key == FieldOrder[i]
                     value == cleaned[key]
                 IN  IF value.type = "str"
                     THEN SetItem(step[i - 1], key, value.val)
                     ELSE IF value.type = "list"
                     THEN SetList(step[i - 1], key, value.val)
                     ELSE step[i - 1]
    IN  step[Len(FieldOrder)]

\* releases.manage_metadata: the package is looked up with
\* owner=request.user; a release whose metadata_version has no form is not
\* found; a valid form is applied to package_info and the release saved.
ManageMetadata(user, owner, package, version, method, form) ==
    LET r0 == EditResp("manage_metadata", user, owner, package, version, method)
        r == [r0 EXCEPT !.formValid = method = "POST" /\ form.valid,
                        !.fsValid = method = "POST",
                        !.template = "userpypi/release_manage.html",
                        !.cleaned = IF method = "POST" /\ form.valid
                                    THEN form.cleaned ELSE <<>>]
        ps == PackagesNamed(user, package)
        p == CHOOSE q \in ps : TRUE
        xs == GetRelease(p, version)
        x == CHOOSE y \in xs : TRUE
        cls == GetClass(METADATA_FORMS[MetadataVersion[x]])
    IN  IF ~MaintainsPackage(user, owner, package) THEN Forbidden(r)
        ELSE IF ps = {} THEN NotFound(r)
        ELSE IF xs = {} THEN NotFound(r)
        ELSE IF MetadataVersion[x] \notin DOMAIN METADATA_FORMS THEN NotFound(r)
        ELSE IF cls.exc # "none"
        THEN [resp |-> Raised(r, cls.exc), ops |-> <<>>]
        ELSE IF method = "POST" /\ form.valid
        THEN [resp |-> [r EXCEPT !.kind = "redirect", !.objs = {x},
                                 !.url = <<"release", package, version>>],
              ops |-> <<[op |-> "package_info", id |-> x,
                         val |-> ApplyCleaned(package_info[x], form.cleaned)]>>]
        ELSE [resp |-> [r EXCEPT !.kind = "render", !.objs = {x},
                                 !.errors = method = "POST",
                                 !.initial = Initial(package_info[x])],
              ops |-> <<>>]

-----------------------------------------------------------------------------
(* The store writes, one at a time: the views open no transaction, so each *)
(* save() is committed as it is issued.                                    *)

Write(w) ==
    /\ private' = IF w.op = "package" THEN [private EXCEPT ![w.id] = w.val]
                  ELSE private
    /\ maintainers' =
         IF w.op = "add_maintainer"
         THEN [maintainers EXCEPT ![w.id] = @ \cup {w.val}]
         ELSE IF w.op = "del_maintainer"
         THEN [maintainers EXCEPT ![w.id] = @ \ {w.val}]
         ELSE maintainers
    /\ hidden' = IF w.op = "hidden" THEN [hidden EXCEPT ![w.id] = w.val]
                 ELSE hidden
    /\ dists' = IF w.op = "comment" THEN [dists EXCEPT ![w.id].comment = w.val]
                ELSE IF w.op = "dist" THEN Append(dists, w.val)
                ELSE dists
    /\ package_info' = IF w.op = "package_info"
                       THEN [package_info EXCEPT ![w.id] = w.val]
                       ELSE package_info

\* A handler's run up to its first store write: without writes it answers at
\* once; with one write it saves and answers; with more the rest of the save
\* is still to come.
Handle(o) ==
    /\ Idle
    /\ IF o.ops = <<>>
       THEN /\ resp' = o.resp
            /\ UNCHANGED <<store, pending, posts>>
       ELSE /\ pending.kind = "none"
            /\ posts < MaxSaves
            /\ \A i \in 1..Len(o.ops) :
                   o.ops[i].op = "dist" => Len(dists) < MaxDists
            /\ Write(Head(o.ops))
            /\ posts' = posts + 1
            /\ IF Len(o.ops) = 1
               THEN resp' = o.resp /\ UNCHANGED pending
               ELSE /\ pending' = [kind |-> "save", ops |-> Tail(o.ops),
                                   done |-> o.resp, pre |-> store]
                    /\ UNCHANGED resp
    /\ UNCHANGED <<PROXY_MISSING, PROXY_BASE_URL>>

\* The submitted package form and maintainer formset of a POST; a GET carries
\* no submission (the handler does not read it).
PackageForms(method) ==
    IF method = "GET"
    THEN {[formValid |-> FALSE, private |-> FALSE, fsValid |-> FALSE, maint |-> {}]}
    ELSE [formValid : BOOLEAN, private : BOOLEAN, fsValid : BOOLEAN,
          maint : SUBSET {"bob"}]

ManagePackage ==
    \E user \in EditRequesters, owner \in EditOwners, package \in EditNames,
       method \in Methods :
        \E form \in PackageForms(method) :
            Handle(Manage(user, owner, package, method, form))

\* The submitted version formset: validity, and the releases ticked hidden
\* among the rows of the formset (the releases of the requester's package).
VersionFormsets(user, package, method) ==
    IF method = "GET"
    THEN {[valid |-> FALSE, hide |-> {}]}
    ELSE [valid : BOOLEAN,
          hide : SUBSET {x \in ReleaseIds :
                           Release[x].package \in PackagesNamed(user, package)}]

\* The submitted file formset: validity and a comment per Distribution row.
FileFormsets(method) ==
    IF method = "GET"
    THEN {[valid |-> FALSE, comments |-> [i \in 1..Len(dists) |-> dists[i].comment]]}
    ELSE [valid : BOOLEAN, comments : [1..Len(dists) -> Comments]]

\* The submitted upload form.
UploadForms(method) ==
    IF method = "GET"
    THEN {[valid |-> FALSE, comment |-> "a"]}
    ELSE [valid : BOOLEAN, comment : {"a"}]

ManagePackageVersions ==
    \E user \in EditRequesters, owner \in EditOwners, package \in EditNames,
       method \in Methods :
        \E fs \in VersionFormsets(user, package, method) :
            Handle(ManageVersions(user, owner, package, method, fs))

ManageReleaseFiles ==
    \E user \in EditRequesters, owner \in EditOwners, package \in EditNames,
       version \in Versions, method \in Methods :
        \E fs \in FileFormsets(method) :
            Handle(ManageFiles(user, owner, package, version, method, fs))

UploadReleaseFile ==
    \E user \in EditRequesters, owner \in EditOwners, package \in EditNames,
       version \in Versions, method \in Methods :
        \E form \in UploadForms(method) :
            Handle(UploadFile(user, owner, package, version, method, form))

\* The next row of a save in progress, more rows following.
ContinueSave ==
    /\ pending.kind = "save"
    /\ Len(pending.ops) > 1
    /\ Write(Head(pending.ops))
    /\ pending' = [pending EXCEPT !.ops = Tail(@)]
    /\ UNCHANGED <<PROXY_MISSING, PROXY_BASE_URL, posts, resp>>

\* The last row of a save in progress, and the handler's response.
FinishSave ==
    /\ pending.kind = "save"
    /\ Len(pending.ops) = 1
    /\ Idle
    /\ Write(Head(pending.ops))
    /\ pending' = NoPending
    /\ resp' = pending.done
    /\ UNCHANGED <<PROXY_MISSING, PROXY_BASE_URL, posts>>

\* A save() of a save in progress raises (the database refuses the row or is
\* gone): the exception leaves the view, the rows already saved stay saved.
AbortSave ==
    /\ pending.kind = "save"
    /\ Idle
    /\ pending' = NoPending
    /\ resp' = Raised(pending.done, "DatabaseError")
    /\ UNCHANGED <<PROXY_MISSING, PROXY_BASE_URL, store, posts>>

Init ==
    /\ PROXY_MISSING = FALSE
    /\ PROXY_BASE_URL = <<"u">>
    /\ private = InitPrivate
    /\ maintainers = [p \in PackageIds |->
                         IF p \in {"p1", "p2"} THEN {"bob"} ELSE {}]
    /\ hidden = [x \in ReleaseIds |-> FALSE]
    /\ dists = <<[release |-> "r1", uploader |-> "alice", comment |-> "a"],
                 [release |-> "r1", uploader |-> "alice", comment |-> "a"]>>
    /\ package_info = InitPackageInfo
    /\ pending = NoPending
    /\ posts = 0
    /\ resp = Blank

Next ==
    \/ ManagePackage
    \/ ManagePackageVersions
    \/ ManageReleaseFiles
    \/ UploadReleaseFile
    \/ ContinueSave
    \/ FinishSave
    \/ AbortSave
    \/ SendResponse

Spec == Init /\ [][Next]_vars

\* The submitted metadata form: validity and the cleaned value of each field.
MetadataForms(method) ==
    IF method = "GET"
    THEN {[valid |-> FALSE, cleaned |-> <<>>]}
    ELSE [valid : BOOLEAN, cleaned : [FormFields -> CleanedValues]]

ManageReleaseMetadata ==
    \E user \in EditRequesters, owner \in EditOwners, package \in EditNames,
       version \in Versions, method \in Methods :
        \E form \in MetadataForms(method) :
            Handle(ManageMetadata(user, owner, package, version, method, form))

NextMetadata ==
    \/ ManageReleaseMetadata
    \/ SendResponse

SpecMetadata == Init /\ [][NextMetadata]_vars

-----------------------------------------------------------------------------
(* Properties of the read-only views (checked under SpecViews).            *)

\* The records the specification's visibility rule admits: those of the
\* owner, and only the non-private ones unless the requester is the owner or
\* the owner is an organization.
Privileged(user, owner) == user = owner \/ Organization(owner)

ExpectedPackages(user, owner) ==
    {p \in PackageIds : /\ Package[p].owner = owner
                        /\ (Privileged(user, owner) \/ ~private[p])}

ExpectedReleases(user, owner) ==
    {x \in ReleaseIds : /\ Package[Release[x].package].owner = owner
                        /\ (Privileged(user, owner) \/ ~Release[x].private)}

\* C1: a requester other than a non-organization owner is shown exactly the
\* owner's non-private packages, and exactly the non-private releases of the
\* owner's packages; a detail view shows nothing outside them.
C1_NonOwnerSeesOwnersPublic ==
    (/\ resp.owner \in Users
     /\ resp.user # resp.owner
     /\ ~Organization(resp.owner))
    => /\ resp.view = "package_list"
            => /\ resp.kind = "render"
               /\ resp.objs = {p \in PackageIds : /\ Package[p].owner = resp.owner
                                                  /\ ~private[p]}
       /\ resp.view = "release_list"
            => /\ resp.kind = "render"
               /\ resp.objs =
                    {x \in ReleaseIds :
                        /\ Package[Release[x].package].owner = resp.owner
                        /\ ~Release[x].private}
       /\ resp.view = "package_detail" /\ resp.kind = "render"
            => \A p \in resp.objs : Package[p].owner = resp.owner /\ ~private[p]
       /\ resp.view = "release_detail" /\ resp.kind = "render"
            => \A x \in resp.objs :
                   /\ Package[Release[x].package].owner = resp.owner
                   /\ ~Release[x].private

\* C2: the owner's own listing completes and shows every package, and every
\* release, the owner has, private ones included.
C2_OwnerSeesAll ==
    (resp.owner \in Users /\ resp.user = resp.owner)
    => /\ resp.view = "package_list"
            => /\ resp.kind = "render"
               /\ resp.objs = {p \in PackageIds : Package[p].owner = resp.owner}
       /\ resp.view = "release_list"
            => /\ resp.kind = "render"
               /\ resp.objs = {x \in ReleaseIds :
                                 Package[Release[x].package].owner = resp.owner}

\* The packages of the resolved owner visible to the requester that bear the
\* requested name.
C3_Match ==
    {p \in ExpectedPackages(resp.user, resp.owner) : Package[p].name = resp.package}

\* b is base without its trailing "/" characters.
C3_Stripped(b, base) ==
    \E n \in 0..Len(base) :
        /\ b = SubSeq(base, 1, n)
        /\ n = 0 \/ base[n] # "/"
        /\ \A i \in (n + 1)..Len(base) : base[i] = "/"

C3_Outcome(url) ==
    (resp.view = "package_detail" /\ resp.owner \in Users)
    => IF C3_Match = {}
       THEN IF PROXY_MISSING
            THEN resp.kind = "redirect" /\ resp.url = url
            ELSE resp.kind = "notfound"
       ELSE resp.kind = "render" /\ resp.objs = C3_Match /\ resp.url = <<>>

\* C3 (as stated): on a miss the package detail view redirects to
\* PROXY_BASE_URL, "/", the name, "/" when PROXY_MISSING holds and answers
\* not-found otherwise; on a hit it renders the package and does not redirect.
C3_ProxyRedirectVerbatim ==
    C3_Outcome(PROXY_BASE_URL \o <<"/", resp.package, "/">>)

\* C3 (amended): as above, the redirect going to PROXY_BASE_URL with its
\* trailing "/" characters removed, then "/", the name, "/".
C3_ProxyRedirectStripped ==
    \E b \in {SubSeq(PROXY_BASE_URL, 1, n) : n \in 0..Len(PROXY_BASE_URL)} :
        /\ C3_Stripped(b, PROXY_BASE_URL)
        /\ C3_Outcome(b \o <<"/", resp.package, "/">>)

\* A miss redirected under a base URL that ends in "/".
C3_Witness ==
    /\ resp.view = "package_detail"
    /\ resp.owner \in Users
    /\ C3_Match = {}
    /\ PROXY_MISSING
    /\ PROXY_BASE_URL[Len(PROXY_BASE_URL)] = "/"
    /\ resp.kind = "redirect"

\* C4: an owner username no User has ends in not-found in every view that
\* resolves an owner.
C4_UnknownOwnerNotFound ==
    (/\ resp.view \in {"package_list", "package_detail",
                       "release_list", "release_detail"}
     /\ resp.owner = Ghost)
    => resp.kind = "notfound"

\* The visible releases of the requested package of the resolved owner whose
\* version is the requested one.
C5_Match ==
    {x \in ExpectedReleases(resp.user, resp.owner) :
        /\ Package[Release[x].package].name = resp.package
        /\ Release[x].version = resp.version}

\* C5: the release detail view renders the visible release of the requested
\* package with the requested version, and answers not-found when there is
\* none.
C5_ReleaseByVersion ==
    (resp.view = "release_detail" /\ resp.owner \in Users)
    => IF C5_Match = {}
       THEN resp.kind = "notfound"
       ELSE resp.kind = "render" /\ resp.objs = C5_Match

\* C6: a rendered detail response has content type text/xml (and, unless the
\* simple template is configured, the XML template) exactly when the
\* route's doap flag is true.
C6_DoapDecidesContentType ==
    (resp.view \in {"package_detail", "release_detail"} /\ resp.kind = "render")
    => IF resp.doap
       THEN /\ resp.mimetype = "text/xml"
            /\ ~resp.simple => resp.template \in {"userpypi/package_doap.xml",
                                                  "userpypi/release_doap.xml"}
       ELSE resp.mimetype = "text/html"

-----------------------------------------------------------------------------
(* Properties of the editors (checked under Spec).                         *)

\* The step returns the response of a write request that reached the
\* handler's validation (the gate let it in and the edited object exists).
Submitted(view) ==
    /\ resp' # resp
    /\ resp'.view = view
    /\ resp'.method = "POST"
    /\ resp'.kind \notin {"forbidden", "notfound"}

\* C7: in every editor a write request whose form or batch is invalid changes
\* no stored row and is answered with the same form re-rendered, carrying
\* the validation errors.
C7_InvalidRerendersWithErrors ==
    [][\A view \in {"package_manage", "manage_versions", "manage_files",
                    "upload_file"} :
           (Submitted(view) /\ ~(resp'.formValid /\ resp'.fsValid))
           => /\ store' = store
              /\ resp'.kind = "render"
              /\ resp'.errors]_vars

\* The request a change of the store belongs to: the save in progress, or
\* else the request answered in this step.
C8_Origin ==
    IF pending'.kind = "save" THEN pending'.done
    ELSE IF pending.kind = "save" THEN pending.done
    ELSE resp'

\* C8: in the package editor a write request whose package form is valid and
\* whose maintainer batch is not persists nothing and starts no save, and is
\* answered with the same page re-rendered with both forms; the package and
\* its maintainer rows change only within a write request of the package
\* editor in which both validated.
C8_InvalidMaintainersPersistNothing ==
    [][/\ (Submitted("package_manage") /\ resp'.formValid /\ ~resp'.fsValid)
          => /\ store' = store
             /\ pending' = pending
             /\ resp'.kind = "render"
             /\ resp'.template = "userpypi/package_manage.html"
             /\ resp'.errors
       /\ (private' # private \/ maintainers' # maintainers)
          => /\ C8_Origin.view = "package_manage"
             /\ C8_Origin.method = "POST"
             /\ C8_Origin.formValid
             /\ C8_Origin.fsValid]_vars

\* The package editor answered a submission with a valid package form and an
\* invalid maintainer batch; the page shows the submitted value of the
\* package's field, the store still holds the other one.
C8_Witness ==
    /\ resp.view = "package_manage"
    /\ resp.method = "POST"
    /\ resp.formValid /\ ~resp.fsValid
    /\ resp.kind = "render"
    /\ \E p \in resp.objs : resp.seenPrivate # private[p]

\* C9: while the rows of a multi-row save are being written, the store other
\* requests read shows none of them: it is as it was when the request began.
C9_SaveIsAtomic ==
    pending.kind = "save" => store = pending.pre

\* The release the route of the answered upload names: the requested version
\* of the package of that name of the route's owner.
C10_Target ==
    {x \in ReleaseIds :
        /\ Release[x].package \in PackagesNamed(resp'.owner, resp'.package)
        /\ Release[x].version = resp'.version}

\* C10: a file-upload write request the gate lets in, with a valid form, adds
\* exactly one Distribution, of the release the route names and uploaded by
\* the requester, and redirects to the post-save location; with an invalid
\* form no Distribution is added.
C10_UploadCreatesOneDistribution ==
    [][(/\ resp' # resp
        /\ resp'.view = "upload_file"
        /\ resp'.method = "POST"
        /\ resp'.kind # "forbidden")
       => IF resp'.formValid /\ C10_Target # {}
          THEN /\ \E x \in C10_Target, c \in Comments :
                      dists' = Append(dists, [release |-> x,
                                              uploader |-> resp'.user,
                                              comment |-> c])
               /\ resp'.kind = "redirect"
               /\ resp'.url = <<"release-manage-files", resp'.package,
                                resp'.version>>
          ELSE dists' = dists]_vars

-----------------------------------------------------------------------------
(* Properties of release-metadata editing (checked under SpecMetadata).    *)

=============================================================================
